---- MODULE Spec2Model ----
(***************************************************************************)
(* Model of the Observer pattern's notification engines of                 *)
(* src/behavioral/observer/Observer.ts:                                    *)
(*   - Observable<T>       (synchronous fan-out, Set.prototype.forEach)    *)
(*   - AsyncObservable<T>  (parallel fan-out over Array.from + Promise.all,*)
(*                          sequential fan-out over a live for...of)       *)
(*                                                                         *)
(* A JavaScript Set iterates in insertion order and its iterators are      *)
(* live: an element added during the iteration is visited, an element      *)
(* deleted before it is reached is skipped, an element deleted and added   *)
(* again is visited again.  The registration set is a duplicate-free       *)
(* sequence in insertion order; a running iteration is a cursor (the       *)
(* number of live entries already passed) that a deletion at or before it  *)
(* moves back by one and that clear() resets to 0.  This is ECMAScript's   *)
(* [[SetData]] list with its "empty" slots squeezed out.                   *)
(*                                                                         *)
(* JavaScript runs one task at a time: synchronous code runs to completion *)
(* and other code runs only where a notify method is suspended on an       *)
(* await.  An observer's update / updateAsync is client code: it may       *)
(* return, throw or reject, and may change the registration set.  One      *)
(* notify call per notifier is followed at a time; the payload is opaque   *)
(* and is recorded for the synchronous notifier only.                      *)
(***************************************************************************)
EXTENDS Integers, Sequences, FiniteSets, TLC

\* ------------------------------------------------------------------ bounds
\* The observer objects (identities) that clients create.
Observers == {"o1", "o2", "o3"}

\* The payloads handed to notifyObservers.
Data == {"v1", "v2"}

\* Invocations of one observer that one notify call may make before the
\* model stops following the call.
MaxInvoked == 2

\* ------------------------------------------------------------- variables
VARIABLES
    observers,   \* Observable.observers: duplicate-free sequence, insertion order
    pc,          \* "idle", "notify" (in forEach), "update" (in an update)
    cursor,      \* forEach position: live entries already passed
    current,     \* the observer whose update is running, or "none"
    data,        \* argument of the notifyObservers call in progress / last made
    startSet,    \* observers registered when that call started
    received,    \* received[o]: payloads o.update was invoked with by that call
    log,         \* console.error lines of that call: how many name each id
    outcome      \* how that call ended: "none", "returned", "threw"

svars == <<observers, pc, cursor, current, data, startSet, received, log,
           outcome>>

VARIABLES
    aobservers,  \* AsyncObservable.observers: duplicate-free sequence
    apc,         \* "idle"; "par-map", "par-prefix", "par-await";
                 \* "seq-run", "seq-prefix", "seq-await"
    amode,       \* the notify call in progress / last made: "none", "par", "seq"
    snapshot,    \* notifyObservers: Array.from(this.observers)
    aindex,      \* notifyObservers: elements of the array already mapped
    acursor,     \* notifyObserversSequentially: for...of position
    acurrent,    \* the observer whose updateAsync was called last, or "none"
    astartSet,   \* observers registered when the call started
    astarted,    \* astarted[o]: times the call invoked o.updateAsync
    inflight,    \* observers whose updateAsync promise is still pending
    wrapper,     \* notifyObservers: state of each element's async callback
    alog,        \* console.error lines of the call: how many name each id
    aoutcome     \* the call's promise: "none", "pending", "fulfilled", "rejected"

avars == <<aobservers, apc, amode, snapshot, aindex, acursor, acurrent,
           astartSet, astarted, inflight, wrapper, alog, aoutcome>>

VARIABLES
    kept,        \* history of the synchronous notifier: the observers that
                 \* were registered when the last notifyObservers call began
                 \* and have not been removed while it ran
    scenario     \* history of the synchronous notifier, for the clear scenario:
                 \* "delivered" - the last call returned having delivered its
                 \*    payload exactly once to every observer, nothing since;
                 \* "cleared" - clearObservers() was called right after that;
                 \* "renotified" - notifyObservers was called right after that;
                 \* "none" - anything else

VARIABLES
    fallowed,    \* EventFilter.allowedTypes, written by the constructor only
    fup,         \* observers of the upstream EventEmitter
    fdown,       \* observers of EventFilter.filteredEmitter
    fpc,         \* "new" (no filter yet); "idle"; "up" (upstream forEach),
                 \* "logger" (in the logger's
                 \* update), "down" (forEach of the filtered emitter, inside
                 \* EventFilter.update), "dupdate" (in a downstream update)
    fupcur,      \* upstream forEach position
    fdowncur,    \* downstream forEach position
    fevent,      \* the event of the upstream emit in progress
    fderived,    \* the event of the filtered emitter's emit in progress
    fcurrent,    \* the downstream observer whose update is running
    fgot,        \* fgot[d]: events d.update was invoked with during this emit
    ffiltlog,    \* "Filtering event" lines the filter printed during this
                 \* emit, one per EventFilter.update that found its type allowed
    ferrlog,     \* console.error lines during this emit: the observers named
    fsteady      \* downstream observers registered when this emit began and
                 \* not removed since

fvars == <<fallowed, fup, fdown, fpc, fupcur, fdowncur, fevent, fderived,
           fcurrent, fgot, ffiltlog, ferrlog, fsteady>>

hvars == <<kept, scenario>>

VARIABLES
    tpc,         \* "new" (no processors yet), "idle", "await" (a timed call
                 \* is waiting for timers)
    tdelay,      \* tdelay[p]: AsyncProcessor.processingTime of p
    tnow,        \* the clock, in logical time units
    ttimers,     \* pending setTimeout timers: pairs <<processor, deadline>>
    tmode,       \* "parallel" or "sequential": the timed call in progress
    tindex,      \* sequential: the position of the observer awaited
    tstart,      \* the clock when the timed call started
    tend         \* <<the clock when the timed call's promise resolved>>,
                 \* <<>> before that

tvars == <<tpc, tdelay, tnow, ttimers, tmode, tindex, tstart, tend>>

VARIABLES
    dinstance,    \* DatabaseConnection.instance: <<>> while undefined, else
                  \* <<k>> for the k-th DatabaseConnection constructed
    dlock,        \* DatabaseConnection.lock
    dconstructed, \* how many times the constructor has run
    dpc,          \* dpc[c]: "start"; "waiting" (getInstance is in its wait
                  \* loop); "settled" (the promise of getInstance is resolved,
                  \* the caller has not resumed); "resumed" (the caller holds
                  \* db and waits for its timer); "done"
    dvalue        \* dvalue[c]: <<v>> once the promise of c's call has resolved
                  \* to v (v is <<>> for undefined), <<>> before that

dvars == <<dinstance, dlock, dconstructed, dpc, dvalue>>

VARIABLES
    bkind,       \* "none" (no builder yet), "computer", "sql" or "http": the
                 \* builder followed
    bheap,       \* the two product objects followed, by address: the one the
                 \* builder holds and the one it returned last
    bcur,        \* the address the builder's private field refers to
    blast,       \* the address build() returned last, "none" before that
    bsets,       \* setter calls made since the builder's field was last set
    bsnap,       \* history: the product build() returned last, as it was then
    bexpect      \* history: a new product with the setter calls made since
                 \* the last build() applied to it

bvars == <<bkind, bheap, bcur, blast, bsets, bsnap, bexpect>>

VARIABLES
    oregs,       \* oregs[f]: the Set in the observers field f
    oanswer      \* what the last hasObserver / getObserverCount call returned

ovars == <<oregs, oanswer>>

VARIABLES
    ukind,       \* "none" (no subject yet), "weather" (a WeatherStation) or
                 \* "stock" (a Stock): the subject followed
    ustate,      \* the subject's private fields
    upayload,    \* the object handed to notifyObservers by the call in
                 \* progress
    uobs,        \* the subject's observers
    upc,         \* "idle", "notify" (in forEach), "update" (in an update)
    ucursor,     \* forEach position
    uheld        \* history: getCurrentWeather() / getPrice() before the call
                 \* in progress

uvars == <<ukind, ustate, upayload, uobs, upc, ucursor, uheld>>

VARIABLES
    whistory,    \* WeatherForecast.history
    wforecast,   \* the forecast printed by the last update, "none" before
    wall         \* history: every reading received, in arrival order

wvars == <<whistory, wforecast, wall>>

VARIABLES
    rkind,       \* "none" (no repository yet), "legacy" (over a
                 \* LegacyDatabaseAdapter) or "other" (over another Database)
    rconnected,  \* LegacyDatabase.connected
    rpc,         \* per getUsers call: "start", "connect", "query",
                 \* "disconnect" (awaiting that method) or "done"
    rawait,      \* per call: how the promise it awaits settles
    rpending,    \* per call: what the try block left, kept across finally
    rresult,     \* per call: how getUsers settled, "none" before
    rcalls,      \* history, per call: the Database methods it called
    rout         \* history, per call and method: how the method settled

rvars == <<rkind, rconnected, rpc, rawait, rpending, rresult, rcalls, rout>>

VARIABLES
    qconnected,  \* DatabaseConnection.isConnected
    qqueries,    \* DatabaseConnection.queries
    qpending,    \* connect() calls waiting for their timer
    qreturn,     \* what the last call returned or threw
    qcall,       \* history: the last call, with isConnected and queries as
                 \* they were when it was made
    qexecuted,   \* history: the sql of every query that returned normally
    qcompleted   \* history: whether a connect() has completed

qvars == <<qconnected, qqueries, qpending, qreturn, qcall, qexecuted,
           qcompleted>>

vars == <<svars, avars, hvars, fvars, tvars, dvars, bvars, ovars, uvars, wvars, rvars, qvars>>

\* ------------------------------------------------------- Set<T> operations
Range(s) == {s[i] : i \in 1..Len(s)}

\* Position of o in s, 0 when absent.
IndexOf(s, o) ==
    IF o \in Range(s) THEN CHOOSE i \in 1..Len(s) : s[i] = o ELSE 0

RemoveAt(s, p) == [i \in 1..(Len(s) - 1) |-> IF i < p THEN s[i] ELSE s[i + 1]]

\* An add that puts a new entry first in the iteration order.
SetAddFront(s, o) == IF o \in Range(s) THEN s ELSE <<o>> \o s

\* An array push in the place of Set.prototype.add: no identity check.
SetAddPush(s, o) == Append(s, o)

\* Set.prototype.add: appends unless present (SameValueZero on the object).
SetAdd(s, o) == IF o \in Range(s) THEN s ELSE Append(s, o)

\* A delete that leaves the entry in.
SetDeleteKeeps(s, o) == s

\* Set.prototype.delete
SetDelete(s, o) == IF o \in Range(s) THEN RemoveAt(s, IndexOf(s, o)) ELSE s

\* A clear() that leaves the entries where they are.
SetClearKeeps(s) == s

\* Set.prototype.clear
SetClear(s) == <<>>

\* Set.prototype.has
SetHas(s, o) == o \in Range(s)

\* Observer.getId(): caller-assigned, not unique.
getId(o) ==
    CASE o = "o1" -> "display"
      [] o = "o2" -> "logger"
      [] o = "o3" -> "display"

\* A size that counts identifiers instead of entries.
SetSizeById(s) == Cardinality({getId(s[i]) : i \in 1..Len(s)})

\* Set.prototype.size
SetSize(s) == Len(s)

\* An index into an array that delete(o) splices: the index stays where it is.
CursorStays(s, cur, o) == cur

\* Where the cursor of a running iteration stands after delete(o): a deletion
\* at or before the cursor moves it back by one (the entry no longer counts
\* among those passed), a deletion after it leaves it.
CursorAfterDelete(s, cur, o) ==
    IF IndexOf(s, o) \in 1..cur THEN cur - 1 ELSE cur

\* ------------------------------------------------------------- Observable
\* The identifiers in use.
Ids == {getId(o) : o \in Observers}

\* observer.update(data) as seen by the notifier: client code that returns
\* or throws.
UpdateOutcomes == {"returned", "threw"}

\* The callback without its try/catch: the update's exception goes on.
TryCatchRethrows(res) == res

\* try { observer.update(data) } catch (error) { console.error(...) }
TryCatch(res) == "returned"

\* observer.update(data): the observer is handed the payload.
Deliver(rcv, d) == Append(rcv, d)

\* Values an observer throws or rejects with.
Errors == {"boom", "timeout"}

\* console.error(`Error notifying observer ${observer.getId()}:`, error): the
\* line, as the pieces of its text followed by the error.
ErrorLine(o, error) == <<"Error notifying observer ", getId(o), ":", error>>

\* console.error(`Error notifying async observer ${observer.getId()}:`, error)
AsyncErrorLine(o, error) ==
    <<"Error notifying async observer ", getId(o), ":", error>>

\* A catch block that prints nothing.
LogErrorNone(lg, o) == lg

\* console.error(`Error notifying observer ${observer.getId()}:`, error)
LogError(lg, o) == [lg EXCEPT ![getId(o)] = @ + 1]

NoLog == [i \in Ids |-> 0]

InitObservable ==
    /\ observers = <<>>
    /\ pc = "idle"
    /\ cursor = 0
    /\ current = "none"
    /\ data = "none"
    /\ startSet = {}
    /\ received = [o \in Observers |-> <<>>]
    /\ log = NoLog
    /\ outcome = "none"

\* Client code runs between notifications ("idle") and inside an observer's
\* update ("update"); notifyObservers itself is synchronous, so nothing else
\* runs while forEach is between two callbacks.
ClientRuns == pc \in {"idle", "update"}

\* Observable.addObserver
addObserver(o) ==
    /\ ClientRuns
    /\ observers' = SetAdd(observers, o)
    /\ UNCHANGED <<pc, cursor, current, data, startSet, received, log, outcome>>

\* Observable.removeObserver
removeObserver(o) ==
    /\ ClientRuns
    /\ observers' = SetDelete(observers, o)
    /\ cursor' = CursorAfterDelete(observers, cursor, o)
    /\ UNCHANGED <<pc, current, data, startSet, received, log, outcome>>

\* Observable.clearObservers
clearObservers ==
    /\ ClientRuns
    /\ observers' = SetClear(observers)
    /\ cursor' = 0
    /\ UNCHANGED <<pc, current, data, startSet, received, log, outcome>>

\* Observable.notifyObservers(d): entry, this.observers.forEach begins.
notifyObservers(d) ==
    /\ pc = "idle"
    /\ pc' = "notify"
    /\ cursor' = 0
    /\ data' = d
    /\ startSet' = Range(observers)
    /\ received' = [o \in Observers |-> <<>>]
    /\ log' = NoLog
    /\ outcome' = "none"
    /\ UNCHANGED <<observers, current>>

\* forEach calls its callback on the next live entry: observer.update(data)
\* is entered.
forEachCallback ==
    /\ pc = "notify"
    /\ cursor < Len(observers)
    /\ Len(received[observers[cursor + 1]]) < MaxInvoked
    /\ pc' = "update"
    /\ current' = observers[cursor + 1]
    /\ cursor' = cursor + 1
    /\ received' = [received EXCEPT ![observers[cursor + 1]] = Deliver(@, data)]
    /\ UNCHANGED <<observers, data, startSet, log, outcome>>

\* observer.update(data) ends, by returning or by throwing; the callback's
\* try/catch handles it and forEach goes on (or the exception leaves
\* notifyObservers).
updateEnds(upd) ==
    /\ pc = "update"
    /\ log' = IF upd = "threw" /\ TryCatch(upd) = "returned"
              THEN LogError(log, current) ELSE log
    /\ IF TryCatch(upd) = "threw"
       THEN pc' = "idle" /\ outcome' = "threw" /\ cursor' = 0
       ELSE pc' = "notify" /\ outcome' = outcome /\ cursor' = cursor
    /\ current' = "none"
    /\ UNCHANGED <<observers, data, startSet, received>>

\* forEach has passed the last entry: notifyObservers returns.
notifyReturn ==
    /\ pc = "notify"
    /\ cursor >= Len(observers)
    /\ pc' = "idle"
    /\ cursor' = 0
    /\ outcome' = "returned"
    /\ UNCHANGED <<observers, current, data, startSet, received, log>>

\* -------------------------------------------------------- AsyncObservable
\* How the synchronous part of observer.updateAsync(data) ends: it returns a
\* promise, or it throws before returning one.
CallOutcomes == {"promise", "threw"}

\* How a promise returned by updateAsync settles.
Settlements == {"fulfilled", "rejected"}

\* The await without its try/catch: the failure goes on.
AsyncTryCatchRethrows(res) == res

\* try { await observer.updateAsync(data) } catch (error) { console.error }:
\* what is left of a failure (a synchronous throw or a rejection) or of a
\* success once the try statement is done.
AsyncTryCatch(res) == "fulfilled"

\* map() walking the set itself instead of a copy of it.
ArrayFromLive(snap, live) == live

\* Array.from(this.observers): the array that map() walks, given the copy
\* taken when notifyObservers was entered and the set as it is now.
ArrayFrom(snap, live) == snap

\* Promise.race in the place of Promise.all: settled with the first
\* callback promise that is settled.
PromiseRace(w, src) ==
    IF \E i \in 1..Len(src) : w[src[i]] = "rejected" THEN "rejected"
    ELSE IF src = <<>> \/ \E i \in 1..Len(src) : w[src[i]] = "fulfilled"
         THEN "fulfilled"
    ELSE "pending"

\* Promise.all over the callbacks' promises of the array src: rejected as
\* soon as one is rejected, fulfilled once all are fulfilled.
PromiseAll(w, src) ==
    IF \E i \in 1..Len(src) : w[src[i]] = "rejected" THEN "rejected"
    ELSE IF \A i \in 1..Len(src) : w[src[i]] = "fulfilled" THEN "fulfilled"
    ELSE "pending"

\* The call without its await: the loop runs on while the promise is pending.
AwaitCallNoAwait(res) == "seq-run"

\* The loop of notifyObserversSequentially after observer.updateAsync(data)
\* has been called: `await` suspends it on the returned promise; a
\* synchronous throw goes to the catch clause and the loop runs on.
AwaitCall(res) == IF res = "promise" THEN "seq-await" ELSE "seq-run"

NoneStarted == [o \in Observers |-> 0]

NoWrapper == [o \in Observers |-> "none"]

InitAsyncObservable ==
    /\ aobservers = <<>>
    /\ apc = "idle"
    /\ amode = "none"
    /\ snapshot = <<>>
    /\ aindex = 0
    /\ acursor = 0
    /\ acurrent = "none"
    /\ astartSet = {}
    /\ astarted = NoneStarted
    /\ inflight = {}
    /\ wrapper = NoWrapper
    /\ alog = NoLog
    /\ aoutcome = "none"

\* Client code runs between calls, in the synchronous part of an updateAsync,
\* and whenever the notify call is suspended on an await (other callers, or
\* the rest of an observer's updateAsync after its own suspension).
AsyncClientRuns ==
    apc \in {"idle", "par-prefix", "seq-prefix", "par-await", "seq-await"}

\* AsyncObservable.addObserver
asyncAddObserver(o) ==
    /\ AsyncClientRuns
    /\ aobservers' = SetAdd(aobservers, o)
    /\ UNCHANGED <<apc, amode, snapshot, aindex, acursor, acurrent, astartSet,
                   astarted, inflight, wrapper, alog, aoutcome>>

\* AsyncObservable.removeObserver
asyncRemoveObserver(o) ==
    /\ AsyncClientRuns
    /\ aobservers' = SetDelete(aobservers, o)
    /\ acursor' = CursorAfterDelete(aobservers, acursor, o)
    /\ UNCHANGED <<apc, amode, snapshot, aindex, acurrent, astartSet,
                   astarted, inflight, wrapper, alog, aoutcome>>

\* AsyncObservable.notifyObservers(data): entry; the array is built.
asyncNotifyObservers ==
    /\ apc = "idle"
    /\ inflight = {}
    /\ apc' = "par-map"
    /\ amode' = "par"
    /\ snapshot' = aobservers
    /\ aindex' = 0
    /\ acursor' = 0
    /\ astartSet' = Range(aobservers)
    /\ astarted' = NoneStarted
    /\ wrapper' = NoWrapper
    /\ alog' = NoLog
    /\ aoutcome' = "pending"
    /\ UNCHANGED <<aobservers, acurrent, inflight>>

\* map() calls the async callback on the next element, which calls
\* observer.updateAsync(data).
mapCallback ==
    /\ apc = "par-map"
    /\ aindex < Len(ArrayFrom(snapshot, aobservers))
    /\ LET o == ArrayFrom(snapshot, aobservers)[aindex + 1] IN
       /\ astarted[o] < MaxInvoked
       /\ acurrent' = o
       /\ astarted' = [astarted EXCEPT ![o] = @ + 1]
    /\ aindex' = aindex + 1
    /\ apc' = "par-prefix"
    /\ UNCHANGED <<aobservers, amode, snapshot, acursor, astartSet, inflight,
                   wrapper, alog, aoutcome>>

\* The synchronous part of updateAsync ends inside the callback: with a
\* promise the callback suspends on its await and map() goes on; a throw is
\* handled by the callback's try/catch.
mapCallEnds(res) ==
    /\ apc = "par-prefix"
    /\ apc' = "par-map"
    /\ IF res = "promise"
       THEN /\ inflight' = inflight \cup {acurrent}
            /\ wrapper' = [wrapper EXCEPT ![acurrent] = "pending"]
            /\ alog' = alog
       ELSE /\ inflight' = inflight
            /\ wrapper' = [wrapper EXCEPT ![acurrent] = AsyncTryCatch("rejected")]
            /\ alog' = IF AsyncTryCatch("rejected") = "fulfilled"
                       THEN LogError(alog, acurrent) ELSE alog
    /\ UNCHANGED <<aobservers, amode, snapshot, aindex, acursor, acurrent,
                   astartSet, astarted, aoutcome>>

\* map() is done: await Promise.all(notifications) suspends notifyObservers.
mapDone ==
    /\ apc = "par-map"
    /\ aindex >= Len(ArrayFrom(snapshot, aobservers))
    /\ apc' = "par-await"
    /\ UNCHANGED <<aobservers, amode, snapshot, aindex, acursor, acurrent,
                   astartSet, astarted, inflight, wrapper, alog, aoutcome>>

\* A pending updateAsync promise of the parallel call settles and the
\* callback that awaits it resumes, inside its try/catch.
parSettle(o, how) ==
    /\ apc = "par-await"
    /\ o \in inflight
    /\ inflight' = inflight \ {o}
    /\ wrapper' = [wrapper EXCEPT ![o] = AsyncTryCatch(how)]
    /\ alog' = IF how = "rejected" /\ AsyncTryCatch(how) = "fulfilled"
               THEN LogError(alog, o) ELSE alog
    /\ UNCHANGED <<aobservers, apc, amode, snapshot, aindex, acursor, acurrent,
                   astartSet, astarted, aoutcome>>

\* Promise.all has settled: notifyObservers resumes and its promise settles.
parReturn ==
    /\ apc = "par-await"
    /\ PromiseAll(wrapper, ArrayFrom(snapshot, aobservers)) # "pending"
    /\ aoutcome' = PromiseAll(wrapper, ArrayFrom(snapshot, aobservers))
    /\ apc' = "idle"
    /\ snapshot' = <<>>
    /\ aindex' = 0
    /\ acurrent' = "none"
    /\ wrapper' = NoWrapper
    /\ UNCHANGED <<aobservers, amode, acursor, astartSet, astarted, inflight,
                   alog>>

\* AsyncObservable.notifyObserversSequentially(data): entry; for...of takes
\* an iterator of the set itself.
notifyObserversSequentially ==
    /\ apc = "idle"
    /\ inflight = {}
    /\ apc' = "seq-run"
    /\ amode' = "seq"
    /\ snapshot' = <<>>
    /\ aindex' = 0
    /\ acursor' = 0
    /\ astartSet' = Range(aobservers)
    /\ astarted' = NoneStarted
    /\ wrapper' = NoWrapper
    /\ alog' = NoLog
    /\ aoutcome' = "pending"
    /\ UNCHANGED <<aobservers, acurrent, inflight>>

\* The loop takes the next live entry and calls observer.updateAsync(data).
seqNext ==
    /\ apc = "seq-run"
    /\ acursor < Len(aobservers)
    /\ astarted[aobservers[acursor + 1]] < MaxInvoked
    /\ acurrent' = aobservers[acursor + 1]
    /\ astarted' = [astarted EXCEPT ![aobservers[acursor + 1]] = @ + 1]
    /\ acursor' = acursor + 1
    /\ apc' = "seq-prefix"
    /\ UNCHANGED <<aobservers, amode, snapshot, aindex, astartSet, inflight,
                   wrapper, alog, aoutcome>>

\* The synchronous part of updateAsync ends inside the loop body.
seqCallEnds(res) ==
    /\ apc = "seq-prefix"
    /\ IF res = "promise"
       THEN /\ inflight' = inflight \cup {acurrent}
            /\ apc' = AwaitCall(res)
            /\ alog' = alog
            /\ aoutcome' = aoutcome
       ELSE /\ inflight' = inflight
            /\ IF AsyncTryCatch("rejected") = "fulfilled"
               THEN /\ apc' = AwaitCall(res)
                    /\ alog' = LogError(alog, acurrent)
                    /\ aoutcome' = aoutcome
               ELSE /\ apc' = "idle"
                    /\ alog' = alog
                    /\ aoutcome' = "rejected"
    /\ UNCHANGED <<aobservers, amode, snapshot, aindex, acursor, acurrent,
                   astartSet, astarted, wrapper>>

\* The awaited promise settles and the loop resumes, inside its try/catch.
seqSettle(how) ==
    /\ apc = "seq-await"
    /\ acurrent \in inflight
    /\ inflight' = inflight \ {acurrent}
    /\ IF AsyncTryCatch(how) = "fulfilled"
       THEN /\ apc' = "seq-run"
            /\ alog' = IF how = "rejected" THEN LogError(alog, acurrent) ELSE alog
            /\ aoutcome' = aoutcome
       ELSE /\ apc' = "idle"
            /\ alog' = alog
            /\ aoutcome' = "rejected"
    /\ UNCHANGED <<aobservers, amode, snapshot, aindex, acursor, acurrent,
                   astartSet, astarted, wrapper>>

\* The iterator is exhausted: notifyObserversSequentially returns.
seqReturn ==
    /\ apc = "seq-run"
    /\ acursor >= Len(aobservers)
    /\ apc' = "idle"
    /\ acursor' = 0
    /\ acurrent' = "none"
    /\ aoutcome' = "fulfilled"
    /\ UNCHANGED <<aobservers, amode, snapshot, aindex, astartSet, astarted,
                   inflight, wrapper, alog>>

\* ------------------------------------------- EventEmitter and EventFilter
\* Event types, payloads and sources that clients emit.  A string is the
\* sequence of its pieces; a source may be left out (source?: string), which
\* leaves the field undefined, a value that is no string.
Types == {"error", "info"}

\* The allow lists a filter is constructed with: one that leaves a type out
\* and one that lets every type through.
AllowLists == {{"error"}, {"error", "info"}}

Payloads == {"m1", "m2"}

Undefined == <<"(undefined)">>

Sources == {<<"App">>, Undefined}

\* The upstream observers: the EventFilter and an EventLogger-like client.
UpObservers == {"filter", "logger"}

\* The observers that clients register on the filtered emitter.
DownObservers == {"d1", "d2"}

NoEvent == [type |-> "none", data |-> "none", source |-> Undefined]

\* EventEmitter.emit: the event it builds (its timestamp, the clock's reading
\* at the call, is left out).
EventOf(type, payload, source) ==
    [type |-> type, data |-> payload, source |-> source]

\* `${event.source}`: a string as it is, undefined as "undefined".
ToStr(source) == IF source = Undefined THEN <<"undefined">> ELSE source

\* `filtered-${event.source}`
Filtered(source) == <<"filtered-">> \o ToStr(source)

\* A filter that lets every type through.
AllowedAlways(types, e) == TRUE

\* this.allowedTypes.has(event.type)
Allowed(types, e) == e.type \in types

\* A filter that forwards the event it was given.
DerivedEventSame(e) == e

\* The arguments EventFilter.update hands to filteredEmitter.emit, as the
\* event emit builds from them.
DerivedEvent(e) == EventOf(e.type, e.data, Filtered(e.source))

InitFilter ==
    /\ fallowed = {}
    /\ fup = <<>>
    /\ fdown = <<>>
    /\ fpc = "new"
    /\ fupcur = 0
    /\ fdowncur = 0
    /\ fevent = NoEvent
    /\ fderived = NoEvent
    /\ fcurrent = "none"
    /\ fgot = [d \in DownObservers |-> <<>>]
    /\ ffiltlog = 0
    /\ ferrlog = {}
    /\ fsteady = {}

\* new EventFilter(id, allowedTypes): the allow-set is a Set of the listed
\* types, the filtered emitter a new EventEmitter.
newEventFilter(allowedTypes) ==
    /\ fpc = "new"
    /\ fpc' = "idle"
    /\ fallowed' = allowedTypes
    /\ fdown' = <<>>
    /\ UNCHANGED <<fup, fupcur, fdowncur, fevent, fderived, fcurrent, fgot,
                   ffiltlog, ferrlog, fsteady>>

\* Client code runs between emits and inside the update of the logger or of
\* a downstream observer.
FilterClientRuns == fpc \in {"idle", "logger", "dupdate"}

\* eventEmitter.addObserver(o)
upAddObserver(o) ==
    /\ FilterClientRuns
    /\ fup' = SetAdd(fup, o)
    /\ UNCHANGED <<fallowed, fdown, fpc, fupcur, fdowncur, fevent, fderived,
                   fcurrent, fgot, ffiltlog, ferrlog, fsteady>>

\* eventEmitter.removeObserver(o)
upRemoveObserver(o) ==
    /\ FilterClientRuns
    /\ fup' = SetDelete(fup, o)
    /\ fupcur' = CursorAfterDelete(fup, fupcur, o)
    /\ UNCHANGED <<fallowed, fdown, fpc, fdowncur, fevent, fderived, fcurrent,
                   fgot, ffiltlog, ferrlog, fsteady>>

\* filter.getFilteredEmitter().addObserver(d)
downAddObserver(d) ==
    /\ FilterClientRuns
    /\ fdown' = SetAdd(fdown, d)
    /\ UNCHANGED <<fallowed, fup, fpc, fupcur, fdowncur, fevent, fderived,
                   fcurrent, fgot, ffiltlog, ferrlog, fsteady>>

\* filter.getFilteredEmitter().removeObserver(d)
downRemoveObserver(d) ==
    /\ FilterClientRuns
    /\ fdown' = SetDelete(fdown, d)
    /\ fdowncur' = CursorAfterDelete(fdown, fdowncur, d)
    /\ fsteady' = fsteady \cap Range(fdown')
    /\ UNCHANGED <<fallowed, fup, fpc, fupcur, fevent, fderived, fcurrent,
                   fgot, ffiltlog, ferrlog>>

\* eventEmitter.emit(type, data, source): builds the event and enters
\* notifyObservers.
emit(type, payload, source) ==
    /\ fpc = "idle"
    /\ fevent' = EventOf(type, payload, source)
    /\ fpc' = "up"
    /\ fupcur' = 0
    /\ fsteady' = Range(fdown)
    /\ UNCHANGED <<fallowed, fup, fdown, fdowncur, fderived, fcurrent, fgot,
                   ffiltlog, ferrlog>>

\* The upstream forEach calls update(event) on the next entry.  The logger's
\* update is client code.  EventFilter.update tests the type: on a match it
\* prints its line and calls filteredEmitter.emit, which enters the
\* downstream forEach; otherwise it returns at once.
upCallback ==
    /\ fpc = "up"
    /\ fupcur < Len(fup)
    /\ fupcur' = fupcur + 1
    /\ IF fup[fupcur + 1] = "logger"
       THEN /\ fpc' = "logger"
            /\ UNCHANGED <<fderived, fdowncur, ffiltlog>>
       ELSE IF Allowed(fallowed, fevent)
       THEN /\ ffiltlog < MaxInvoked
            /\ ffiltlog' = ffiltlog + 1
            /\ fderived' = DerivedEvent(fevent)
            /\ fdowncur' = 0
            /\ fpc' = "down"
       ELSE /\ fpc' = "up"
            /\ UNCHANGED <<fderived, fdowncur, ffiltlog>>
    /\ UNCHANGED <<fallowed, fup, fdown, fevent, fcurrent, fgot, ferrlog,
                   fsteady>>

\* The logger's update ends; the upstream try/catch handles a throw (or the
\* exception leaves the upstream emit).
loggerEnds(upd) ==
    /\ fpc = "logger"
    /\ fpc' = IF TryCatch(upd) = "threw" THEN "idle" ELSE "up"
    /\ ferrlog' = IF upd = "threw" /\ TryCatch(upd) = "returned"
                  THEN ferrlog \cup {"logger"} ELSE ferrlog
    /\ UNCHANGED <<fallowed, fup, fdown, fupcur, fdowncur, fevent, fderived,
                   fcurrent, fgot, ffiltlog, fsteady>>

\* The downstream forEach calls update(derived event) on the next entry.
downCallback ==
    /\ fpc = "down"
    /\ fdowncur < Len(fdown)
    /\ Len(fgot[fdown[fdowncur + 1]]) < MaxInvoked
    /\ fpc' = "dupdate"
    /\ fcurrent' = fdown[fdowncur + 1]
    /\ fdowncur' = fdowncur + 1
    /\ fgot' = [fgot EXCEPT ![fdown[fdowncur + 1]] = Deliver(@, fderived)]
    /\ UNCHANGED <<fallowed, fup, fdown, fupcur, fevent, fderived, ffiltlog,
                   ferrlog, fsteady>>

\* A downstream update ends; the downstream try/catch handles a throw and
\* the downstream forEach goes on.  (An exception the catch let through
\* would leave the downstream notifyObservers, filteredEmitter.emit and
\* EventFilter.update and reach the upstream try/catch as a failure of the
\* filter.)
downUpdateEnds(upd) ==
    /\ fpc = "dupdate"
    /\ fcurrent' = "none"
    /\ IF TryCatch(upd) = "threw"
       THEN /\ fdowncur' = 0
            /\ fderived' = NoEvent
            /\ IF TryCatch("threw") = "threw"
               THEN fpc' = "idle" /\ ferrlog' = ferrlog
               ELSE fpc' = "up" /\ ferrlog' = ferrlog \cup {"filter"}
       ELSE /\ fpc' = "down"
            /\ ferrlog' = IF upd = "threw" THEN ferrlog \cup {fcurrent}
                          ELSE ferrlog
            /\ UNCHANGED <<fdowncur, fderived>>
    /\ UNCHANGED <<fallowed, fup, fdown, fupcur, fevent, fgot, ffiltlog,
                   fsteady>>

\* A filtered emitter whose emit returns before its forEach is done.
downReturnEarly ==
    /\ fpc = "down"
    /\ fpc' = "up"
    /\ fdowncur' = 0
    /\ fderived' = NoEvent
    /\ UNCHANGED <<fallowed, fup, fdown, fupcur, fevent, fcurrent, fgot,
                   ffiltlog, ferrlog, fsteady>>

\* The downstream forEach is done: filteredEmitter.emit and
\* EventFilter.update return into the upstream callback.
downReturn ==
    /\ fpc = "down"
    /\ fdowncur >= Len(fdown)
    /\ fpc' = "up"
    /\ fdowncur' = 0
    /\ fderived' = NoEvent
    /\ UNCHANGED <<fallowed, fup, fdown, fupcur, fevent, fcurrent, fgot,
                   ffiltlog, ferrlog, fsteady>>

\* The upstream forEach is done: eventEmitter.emit returns, and the records
\* of this emit are dropped.
upReturn ==
    /\ fpc = "up"
    /\ fupcur >= Len(fup)
    /\ fpc' = "idle"
    /\ fupcur' = 0
    /\ fevent' = NoEvent
    /\ fgot' = [d \in DownObservers |-> <<>>]
    /\ ffiltlog' = 0
    /\ ferrlog' = {}
    /\ fsteady' = {}
    /\ UNCHANGED <<fallowed, fup, fdown, fdowncur, fderived, fcurrent>>

\* ------------------------------------------- AsyncProcessor, logical time
\* The three processors of the demonstration, in registration order.
Processors == <<"p1", "p2", "p3">>

\* The processing times a processor is constructed with.
Delays == {100, 200, 300}

\* No timed call starts at or after this clock reading.
MaxClock == 900

\* A timer that is due at once.
setTimeoutZero(now, ms) == now

\* setTimeout(resolve, ms): the timer's deadline.
setTimeout(now, ms) == now + ms

\* The timers that fire next: those with the least deadline.
Due(timers) == {tm \in timers : \A other \in timers : tm[2] <= other[2]}

InitTiming ==
    /\ tpc = "new"
    /\ tdelay = [p \in Range(Processors) |-> 100]
    /\ tnow = 0
    /\ ttimers = {}
    /\ tmode = "none"
    /\ tindex = 0
    /\ tstart = 0
    /\ tend = <<>>

\* new AsyncProcessor(id, processingTime), three times, and addObserver of
\* each.
newAsyncProcessors(ms) ==
    /\ tpc = "new"
    /\ tpc' = "idle"
    /\ tdelay' = ms
    /\ UNCHANGED <<tnow, ttimers, tmode, tindex, tstart, tend>>

\* notifyObservers(data): map calls updateAsync on every observer before the
\* call first waits, so every timer is set at the starting time.
timedNotifyObservers ==
    /\ tpc = "idle"
    /\ tnow < MaxClock
    /\ tpc' = "await"
    /\ tmode' = "parallel"
    /\ tstart' = tnow
    /\ tend' = <<>>
    /\ ttimers' = {<<Processors[i], setTimeout(tnow, tdelay[Processors[i]])>> :
                      i \in 1..Len(Processors)}
    /\ UNCHANGED <<tdelay, tnow, tindex>>

\* notifyObserversSequentially(data): calls updateAsync on the first observer
\* and waits for it.
timedNotifyObserversSequentially ==
    /\ tpc = "idle"
    /\ tnow < MaxClock
    /\ tpc' = "await"
    /\ tmode' = "sequential"
    /\ tstart' = tnow
    /\ tend' = <<>>
    /\ tindex' = 1
    /\ ttimers' = {<<Processors[1], setTimeout(tnow, tdelay[Processors[1]])>>}
    /\ UNCHANGED <<tdelay, tnow>>

\* The clock reaches the next deadline and the timer resolves its promise.
\* Parallel: Promise.all resolves with the last of them.  Sequential: the
\* loop goes on to the next observer and sets its timer, or ends.
timerFires ==
    /\ tpc = "await"
    /\ \E tm \in Due(ttimers) :
          /\ tnow' = tm[2]
          /\ IF tmode = "parallel"
             THEN /\ ttimers' = ttimers \ {tm}
                  /\ tindex' = tindex
                  /\ IF ttimers' = {}
                     THEN tpc' = "idle" /\ tend' = <<tnow'>>
                     ELSE tpc' = "await" /\ tend' = tend
             ELSE IF tindex < Len(Processors)
             THEN /\ tindex' = tindex + 1
                  /\ ttimers' = {<<Processors[tindex + 1],
                                   setTimeout(tnow', tdelay[Processors[tindex + 1]])>>}
                  /\ tpc' = "await"
                  /\ tend' = tend
             ELSE /\ tindex' = 0
                  /\ ttimers' = {}
                  /\ tpc' = "idle"
                  /\ tend' = <<tnow'>>
    /\ UNCHANGED <<tdelay, tmode, tstart>>

\* ------------------------------------------------------ DatabaseConnection
\* Array.from({ length: 5 }, ...): the concurrent callers.
CallerCount == 5

Callers == 1..CallerCount

\* A test that never finds the instance.
NoInstanceAlways(inst) == TRUE

\* !DatabaseConnection.instance
NoInstance(inst) == inst = <<>>

\* new DatabaseConnection(): the k-th object constructed.
NewDatabaseConnection(k) == <<k>>

InitDatabase ==
    /\ dinstance = <<>>
    /\ dlock = FALSE
    /\ dconstructed = 0
    /\ dpc = [c \in Callers |-> "start"]
    /\ dvalue = [c \in Callers |-> <<>>]

\* DatabaseConnection.getInstance(), called by c, up to its first await or
\* its return.  With an instance it returns it.  Without one and with the
\* lock taken it enters the wait loop.  Otherwise it takes the lock,
\* constructs the instance and releases the lock in the finally block, all
\* before any other code can run, and returns the instance.
DatabaseConnection_getInstance(c) ==
    /\ dpc[c] = "start"
    /\ IF ~NoInstance(dinstance)
       THEN /\ dvalue' = [dvalue EXCEPT ![c] = <<dinstance>>]
            /\ dpc' = [dpc EXCEPT ![c] = "settled"]
            /\ UNCHANGED <<dinstance, dlock, dconstructed>>
       ELSE IF dlock
       THEN /\ dpc' = [dpc EXCEPT ![c] = "waiting"]
            /\ UNCHANGED <<dinstance, dlock, dconstructed, dvalue>>
       ELSE /\ dconstructed' = dconstructed + 1
            /\ dinstance' = NewDatabaseConnection(dconstructed + 1)
            /\ dlock' = FALSE
            /\ dvalue' = [dvalue EXCEPT ![c] = <<dinstance'>>]
            /\ dpc' = [dpc EXCEPT ![c] = "settled"]

\* c goes on after an await.  In the wait loop (the 10 ms timer fired): the
\* loop tests the lock again and either waits on or returns the instance as
\* it is now.  After getInstance() resolved: the caller has db and sets its
\* own timer.
callerResumes(c) ==
    /\ dpc[c] \in {"waiting", "settled"}
    /\ IF dpc[c] = "settled"
       THEN /\ dpc' = [dpc EXCEPT ![c] = "resumed"]
            /\ UNCHANGED dvalue
       ELSE /\ ~dlock
            /\ dvalue' = [dvalue EXCEPT ![c] = <<dinstance>>]
            /\ dpc' = [dpc EXCEPT ![c] = "settled"]
    /\ UNCHANGED <<dinstance, dlock, dconstructed>>

\* The caller's timer fires and it returns db.
callerReturns(c) ==
    /\ dpc[c] = "resumed"
    /\ dpc' = [dpc EXCEPT ![c] = "done"]
    /\ UNCHANGED <<dinstance, dlock, dconstructed, dvalue>>

\* ---------------------------------------------------------------- Builder
\* Setter calls followed on one product.
MaxSets == 2

\* Arguments the client passes.
Strs == {"x"}

Cols == {<<"x", "y">>}

Nums == {3}

Directions == {"DESC", "(omitted)"}

Methods == {"POST"}

HeaderKeys == {"Accept", "Content-Type"}

HeaderObjects == {{<<"Accept", "y">>}}

\* new Computer()
NewComputer ==
    [cpu |-> "", memory |-> "", storage |-> "", graphics |-> "",
     motherboard |-> "", powerSupply |-> "", coolingSystem |-> "",
     networkCard |-> "", warranty |-> 0]

\* new SQLQuery(); limit and offset are <<>> while undefined.
NewSQLQuery ==
    [select |-> <<>>, from |-> "", joins |-> <<>>, where |-> <<>>,
     groupBy |-> <<>>, having |-> <<>>, orderBy |-> <<>>, limit |-> <<>>,
     offset |-> <<>>]

\* new HttpRequest(); headers is the set of its <<key, value>> entries, body
\* is <<>> while undefined.
NewHttpRequest ==
    [method |-> "GET", url |-> "", headers |-> {}, body |-> <<>>,
     timeout |-> 30000, retries |-> 0]

NewProduct(kind) ==
    CASE kind = "computer" -> NewComputer
      [] kind = "sql" -> NewSQLQuery
      [] kind = "http" -> NewHttpRequest

\* The field each string setter of ComputerBuilder assigns.
ComputerField(op) ==
    CASE op = "setCPU" -> "cpu"
      [] op = "setMemory" -> "memory"
      [] op = "setStorage" -> "storage"
      [] op = "setGraphics" -> "graphics"
      [] op = "setMotherboard" -> "motherboard"
      [] op = "setPowerSupply" -> "powerSupply"
      [] op = "setCoolingSystem" -> "coolingSystem"
      [] op = "setNetworkCard" -> "networkCard"

ComputerSetters ==
    {"setCPU", "setMemory", "setStorage", "setGraphics", "setMotherboard",
     "setPowerSupply", "setCoolingSystem", "setNetworkCard", "setWarranty"}

\* ComputerBuilder.setX(value): this.computer.x = value
ComputerApply(p, op, s, n) ==
    IF op = "setWarranty"
    THEN [p EXCEPT !.warranty = n]
    ELSE [p EXCEPT ![ComputerField(op)] = s]

SQLSetters ==
    {"select", "from", "join", "leftJoin", "rightJoin", "where", "groupBy",
     "having", "orderBy", "limit", "offset"}

\* direction: 'ASC' | 'DESC' = 'ASC'
DirectionOf(dir) == IF dir = "(omitted)" THEN "ASC" ELSE dir

\* The methods of SQLQueryBuilder on this.query.
SQLApply(p, op, s, cols, dir, n) ==
    CASE op = "select" -> [p EXCEPT !.select = @ \o cols]
      [] op = "from" -> [p EXCEPT !.from = s]
      [] op = "join" -> [p EXCEPT !.joins = Append(@, <<"JOIN ", s, " ON ", s>>)]
      [] op = "leftJoin" ->
            [p EXCEPT !.joins = Append(@, <<"LEFT JOIN ", s, " ON ", s>>)]
      [] op = "rightJoin" ->
            [p EXCEPT !.joins = Append(@, <<"RIGHT JOIN ", s, " ON ", s>>)]
      [] op = "where" -> [p EXCEPT !.where = Append(@, s)]
      [] op = "groupBy" -> [p EXCEPT !.groupBy = @ \o cols]
      [] op = "having" -> [p EXCEPT !.having = Append(@, s)]
      [] op = "orderBy" ->
            [p EXCEPT !.orderBy = Append(@, <<s, " ", DirectionOf(dir)>>)]
      [] op = "limit" -> [p EXCEPT !.limit = <<n>>]
      [] op = "offset" -> [p EXCEPT !.offset = <<n>>]

HttpSetters ==
    {"method", "url", "header", "headers", "body", "json", "timeout", "retries"}

\* headers[key] = value
PutHeader(h, key, value) == {e \in h : e[1] # key} \cup {<<key, value>>}

\* { ...headers, ...more }
SpreadHeaders(h, more) ==
    {e \in h : \A m \in more : m[1] # e[1]} \cup more

\* The methods of HttpRequestBuilder on this.request.
HttpApply(p, op, s, m, key, more, n) ==
    CASE op = "method" -> [p EXCEPT !.method = m]
      [] op = "url" -> [p EXCEPT !.url = s]
      [] op = "header" -> [p EXCEPT !.headers = PutHeader(@, key, s)]
      [] op = "headers" -> [p EXCEPT !.headers = SpreadHeaders(@, more)]
      [] op = "body" -> [p EXCEPT !.body = <<s>>]
      [] op = "json" ->
            [p EXCEPT !.body = <<s>>,
                      !.headers = PutHeader(@, "Content-Type", "application/json")]
      [] op = "timeout" -> [p EXCEPT !.timeout = n]
      [] op = "retries" -> [p EXCEPT !.retries = n]

Addresses == {"a", "b"}

\* A build() that empties the object it returns instead of making a new one.
AllocateInPlace(cur) == cur

\* Where new X() puts the object: not where the object just returned is.
\* The address of the product returned before that one is used again, that
\* product being followed no longer.
Allocate(cur) == IF cur = "a" THEN "b" ELSE "a"

InitBuilder ==
    /\ bkind = "none"
    /\ bheap = [a \in Addresses |-> "none"]
    /\ bcur = "a"
    /\ blast = "none"
    /\ bsets = 0
    /\ bsnap = "none"
    /\ bexpect = "none"

\* new ComputerBuilder(), new SQLQueryBuilder() or new HttpRequestBuilder():
\* the private field gets a new product.
newBuilder(kind) ==
    /\ bkind = "none"
    /\ bkind' = kind
    /\ bheap' = [bheap EXCEPT ![bcur] = NewProduct(kind)]
    /\ bexpect' = NewProduct(kind)
    /\ UNCHANGED <<bcur, blast, bsets, bsnap>>

\* One of the setters of ComputerBuilder.
ComputerBuilder_set(op, s, n) ==
    /\ bkind = "computer"
    /\ bsets < MaxSets
    /\ bsets' = bsets + 1
    /\ bheap' = [bheap EXCEPT ![bcur] = ComputerApply(@, op, s, n)]
    /\ bexpect' = ComputerApply(bexpect, op, s, n)
    /\ UNCHANGED <<bkind, bcur, blast, bsnap>>

\* One of the methods of SQLQueryBuilder other than build.
SQLQueryBuilder_set(op, s, cols, dir, n) ==
    /\ bkind = "sql"
    /\ bsets < MaxSets
    /\ bsets' = bsets + 1
    /\ bheap' = [bheap EXCEPT ![bcur] = SQLApply(@, op, s, cols, dir, n)]
    /\ bexpect' = SQLApply(bexpect, op, s, cols, dir, n)
    /\ UNCHANGED <<bkind, bcur, blast, bsnap>>

\* One of the methods of HttpRequestBuilder other than build.
HttpRequestBuilder_set(op, s, m, key, more, n) ==
    /\ bkind = "http"
    /\ bsets < MaxSets
    /\ bsets' = bsets + 1
    /\ bheap' = [bheap EXCEPT ![bcur] = HttpApply(@, op, s, m, key, more, n)]
    /\ bexpect' = HttpApply(bexpect, op, s, m, key, more, n)
    /\ UNCHANGED <<bkind, bcur, blast, bsnap>>

\* build() of the three builders: result = this.product; this.product =
\* new Product(); return result.
build(kind) ==
    /\ bkind = kind
    /\ blast' = bcur
    /\ bsnap' = bheap[bcur]
    /\ bcur' = Allocate(bcur)
    /\ bheap' = [bheap EXCEPT ![Allocate(bcur)] = NewProduct(kind)]
    /\ bsets' = 0
    /\ bexpect' = NewProduct(kind)
    /\ UNCHANGED bkind

ComputerBuilder_build == build("computer")

SQLQueryBuilder_build == build("sql")

HttpRequestBuilder_build == build("http")

\* ---------------------------------------------- notifier instances side by side
\* An EventEmitter, the EventEmitter an EventFilter made for itself, and an
\* AsyncObservable.
Instances == {"eventEmitter", "filteredEmitter", "asyncObservable"}

\* The instances of Observable; AsyncObservable has addObserver and
\* removeObserver only.
SyncInstances == {"eventEmitter", "filteredEmitter"}

\* One static field for all instances.
FieldShared(inst) == "eventEmitter"

\* this.observers of an instance: a field of the instance, initialised with
\* a new Set when the instance is constructed.
FieldOf(inst) == inst

InitInstances ==
    /\ oregs = [f \in Instances |-> <<>>]
    /\ oanswer = <<"none">>

\* inst.addObserver(o)
instAddObserver(inst, o) ==
    /\ oregs' = [oregs EXCEPT ![FieldOf(inst)] = SetAdd(@, o)]
    /\ UNCHANGED oanswer

\* inst.removeObserver(o)
instRemoveObserver(inst, o) ==
    /\ oregs' = [oregs EXCEPT ![FieldOf(inst)] = SetDelete(@, o)]
    /\ UNCHANGED oanswer

\* inst.clearObservers()
instClearObservers(inst) ==
    /\ inst \in SyncInstances
    /\ oregs' = [oregs EXCEPT ![FieldOf(inst)] = SetClear(@)]
    /\ UNCHANGED oanswer

\* inst.hasObserver(o)
hasObserver(inst, o) ==
    /\ inst \in SyncInstances
    /\ oanswer' = <<"hasObserver", SetHas(oregs[FieldOf(inst)], o)>>
    /\ UNCHANGED oregs

\* inst.getObserverCount()
getObserverCount(inst) ==
    /\ inst \in SyncInstances
    /\ oanswer' = <<"getObserverCount", SetSize(oregs[FieldOf(inst)])>>
    /\ UNCHANGED oregs

\* ------------------------------------------------- WeatherStation and Stock
\* Arguments the client passes; pressures are in hundredths of a hPa.
Temperatures == {20, 25}

Humidities == {50, 65}

Pressures == {101325, 101500}

Prices == {100, 150}

Volumes == {100000, 1099999}

SubjectObservers == {"s1", "s2"}

\* The readings a new WeatherStation holds (20, 50, 1013.25); the timestamp,
\* the clock's reading, is left out here and in the payloads.
InitialWeather == [temperature |-> 20, humidity |-> 50, pressure |-> 101325]

\* WeatherStation.getCurrentWeather(): a copy of the stored readings.
getCurrentWeather(st) ==
    [temperature |-> st.temperature, humidity |-> st.humidity,
     pressure |-> st.pressure]

\* Stock.getPrice()
getPrice(st) == st.price

\* A change computed the other way round.
ChangeReversed(price, previousPrice) == previousPrice - price

\* const change = this.price - this.previousPrice
Change(price, previousPrice) == price - previousPrice

\* (change / this.previousPrice) * 100, as the fraction <<numerator,
\* denominator>> of the exact value.
ChangePercent(change, previousPrice) == <<change * 100, previousPrice>>

\* The StockData object setPrice builds.
StockDataOf(st, volume) ==
    [symbol |-> st.symbol, price |-> st.price,
     change |-> Change(st.price, st.previousPrice),
     changePercent |-> ChangePercent(Change(st.price, st.previousPrice),
                                     st.previousPrice),
     volume |-> volume]

\* What a field holds before any object was stored in it.
NoObject == [none |-> TRUE]

InitSubject ==
    /\ ukind = "none"
    /\ ustate = NoObject
    /\ upayload = NoObject
    /\ uobs = <<>>
    /\ upc = "idle"
    /\ ucursor = 0
    /\ uheld = NoObject

\* new WeatherStation()
newWeatherStation ==
    /\ ukind = "none"
    /\ ukind' = "weather"
    /\ ustate' = InitialWeather
    /\ UNCHANGED <<upayload, uobs, upc, ucursor, uheld>>

\* new Stock(symbol, initialPrice)
newStock(initialPrice) ==
    /\ ukind = "none"
    /\ ukind' = "stock"
    /\ ustate' = [symbol |-> "AAPL", price |-> initialPrice,
                  previousPrice |-> initialPrice]
    /\ UNCHANGED <<upayload, uobs, upc, ucursor, uheld>>

\* Client code runs between calls and inside an update.
SubjectClientRuns == ukind # "none" /\ upc \in {"idle", "update"}

\* subject.addObserver(o)
subjectAddObserver(o) ==
    /\ SubjectClientRuns
    /\ uobs' = SetAdd(uobs, o)
    /\ UNCHANGED <<ukind, ustate, upayload, upc, ucursor, uheld>>

\* subject.removeObserver(o)
subjectRemoveObserver(o) ==
    /\ SubjectClientRuns
    /\ uobs' = SetDelete(uobs, o)
    /\ ucursor' = CursorAfterDelete(uobs, ucursor, o)
    /\ UNCHANGED <<ukind, ustate, upayload, upc, uheld>>

\* WeatherStation.setWeatherData(temperature, humidity, pressure): stores the
\* readings and enters notifyObservers with the stored object.
setWeatherData(temperature, humidity, pressure) ==
    /\ ukind = "weather"
    /\ upc = "idle"
    /\ uheld' = getCurrentWeather(ustate)
    /\ ustate' = [temperature |-> temperature, humidity |-> humidity,
                  pressure |-> pressure]
    /\ upayload' = ustate'
    /\ upc' = "notify"
    /\ ucursor' = 0
    /\ UNCHANGED <<ukind, uobs>>

\* Stock.setPrice(newPrice): moves the price to previousPrice, stores the
\* new price, builds the StockData and enters notifyObservers with it.
setPrice(newPrice, volume) ==
    /\ ukind = "stock"
    /\ upc = "idle"
    /\ uheld' = [price |-> getPrice(ustate)]
    /\ ustate' = [ustate EXCEPT !.previousPrice = ustate.price,
                                !.price = newPrice]
    /\ upayload' = StockDataOf(ustate', volume)
    /\ upc' = "notify"
    /\ ucursor' = 0
    /\ UNCHANGED <<ukind, uobs>>

\* forEach enters the update of the next entry.
subjectForEachCallback ==
    /\ upc = "notify"
    /\ ucursor < Len(uobs)
    /\ upc' = "update"
    /\ ucursor' = ucursor + 1
    /\ UNCHANGED <<ukind, ustate, upayload, uobs, uheld>>

\* The update ends, by returning or by throwing into the try/catch.
subjectUpdateEnds(upd) ==
    /\ upc = "update"
    /\ upc' = IF TryCatch(upd) = "threw" THEN "idle" ELSE "notify"
    /\ UNCHANGED <<ukind, ustate, upayload, uobs, ucursor, uheld>>

\* forEach is done: notifyObservers and the setter return.
subjectNotifyReturn ==
    /\ upc = "notify"
    /\ ucursor >= Len(uobs)
    /\ upc' = "idle"
    /\ ucursor' = 0
    /\ UNCHANGED <<ukind, ustate, upayload, uobs, uheld>>

\* ------------------------------------------------------------ WeatherForecast
\* Readings received before the run is cut off.
MaxReadings == 12

\* this.history.length > 10
HistoryLimit == 10

\* The WeatherData objects delivered (without the timestamp, which the
\* forecast does not read); pressures are in hundredths of a hPa.
Readings ==
    { [temperature |-> 20, humidity |-> 50, pressure |-> 101325],
      [temperature |-> 25, humidity |-> 65, pressure |-> 101500] }

\* A trim that drops the newest reading instead of the oldest.
TrimNewest(history) ==
    IF Len(history) > HistoryLimit
    THEN SubSeq(history, 1, Len(history) - 1)
    ELSE history

\* if (this.history.length > 10) this.history.shift()
Trim(history) ==
    IF Len(history) > HistoryLimit THEN Tail(history) ELSE history

\* WeatherForecast.generateForecast(); the trends are compared with 1 hPa.
generateForecast(history) ==
    IF Len(history) < 2
    THEN "Not enough data"
    ELSE LET latest == history[Len(history)]
             previous == history[Len(history) - 1]
             tempTrend == latest.temperature - previous.temperature
             pressureTrend == latest.pressure - previous.pressure
         IN IF pressureTrend > 100 /\ tempTrend > 0
            THEN "Improving weather expected"
            ELSE IF pressureTrend < 0 - 100 /\ tempTrend < 0
                 THEN "Stormy weather expected"
                 ELSE "Stable weather expected"

InitForecast ==
    /\ whistory = <<>>
    /\ wforecast = "none"
    /\ wall = <<>>

\* WeatherForecast.update(weather)
WeatherForecast_update(weather) ==
    /\ Len(wall) < MaxReadings
    /\ whistory' = Trim(Append(whistory, weather))
    /\ wforecast' = generateForecast(whistory')
    /\ wall' = Append(wall, weather)

\* ---------------------------------------------------------- DatabaseRepository
\* Concurrent getUsers calls on one repository.
Calls == {"g1", "g2"}

DbMethods == {"connect", "query", "disconnect"}

\* How a promise of the Database settles.
PromiseOutcomes == {"resolved", "rejected"}

\* LegacyDatabase.openConnection(): sets connected, resolves to true.
openConnection == [connected |-> TRUE, success |-> TRUE]

\* LegacyDatabase.executeQuery(queryString): rejects when not connected.
executeQuery(connected) == IF connected THEN "resolved" ELSE "rejected"

\* LegacyDatabaseAdapter.connect(): rejects when openConnection was false.
Adapter_connect == IF openConnection.success THEN "resolved" ELSE "rejected"

\* The ways db.<method>() may settle for the repository's Database: what the
\* adapter does for the legacy one, either way for another implementation.
DbSettles(kind, method, connected) ==
    IF kind = "legacy"
    THEN CASE method = "connect" -> {Adapter_connect}
           [] method = "query" -> {executeQuery(connected)}
           [] method = "disconnect" -> {"resolved"}
    ELSE PromiseOutcomes

\* LegacyDatabase.connected after db.<method>() was called.
DbConnected(kind, method, connected) ==
    IF kind = "legacy"
    THEN CASE method = "connect" -> openConnection.connected
           [] method = "query" -> connected
           [] method = "disconnect" -> FALSE
    ELSE connected

\* try { ... } finally { await disconnect() }: a rejection inside finally
\* replaces the outcome of the try block.
Finally(pending, settled) ==
    IF settled = "rejected" THEN "disconnect error" ELSE pending

InitRepository ==
    /\ rkind = "none"
    /\ rconnected = FALSE
    /\ rpc = [c \in Calls |-> "start"]
    /\ rawait = [c \in Calls |-> "none"]
    /\ rpending = [c \in Calls |-> "none"]
    /\ rresult = [c \in Calls |-> "none"]
    /\ rcalls = [c \in Calls |-> <<>>]
    /\ rout = [c \in Calls |-> [m \in DbMethods |-> "none"]]

\* new DatabaseRepository(db)
newDatabaseRepository(kind) ==
    /\ rkind = "none"
    /\ rkind' = kind
    /\ UNCHANGED <<rconnected, rpc, rawait, rpending, rresult, rcalls, rout>>

\* Call c invokes db.<method>() and awaits the promise, which will settle
\* as s.
CallDb(c, method, s) ==
    /\ s \in DbSettles(rkind, method, rconnected)
    /\ rconnected' = DbConnected(rkind, method, rconnected)
    /\ rpc' = [rpc EXCEPT ![c] = method]
    /\ rawait' = [rawait EXCEPT ![c] = s]
    /\ rcalls' = [rcalls EXCEPT ![c] = Append(@, method)]
    /\ rout' = [rout EXCEPT ![c][method] = s]

\* getUsers() is called: await this.db.connect()
getUsers(c, s) ==
    /\ rkind # "none"
    /\ rpc[c] = "start"
    /\ CallDb(c, "connect", s)
    /\ UNCHANGED <<rkind, rpending, rresult>>

\* connect settled: a rejection leaves getUsers, else the try block is
\* entered and awaits this.db.query(...)
connectSettles(c, s) ==
    /\ rpc[c] = "connect"
    /\ IF rawait[c] = "rejected"
       THEN /\ rpc' = [rpc EXCEPT ![c] = "done"]
            /\ rresult' = [rresult EXCEPT ![c] = "connect error"]
            /\ rawait' = [rawait EXCEPT ![c] = "none"]
            /\ UNCHANGED <<rkind, rconnected, rpending, rcalls, rout>>
       ELSE /\ CallDb(c, "query", s)
            /\ UNCHANGED <<rkind, rpending, rresult>>

\* query settled: return users or the rejection is pending while finally
\* awaits this.db.disconnect()
querySettles(c, s) ==
    /\ rpc[c] = "query"
    /\ rpending' = [rpending EXCEPT ![c] =
           IF rawait[c] = "rejected" THEN "query error" ELSE "users"]
    /\ CallDb(c, "disconnect", s)
    /\ UNCHANGED <<rkind, rresult>>

\* disconnect settled: getUsers settles.
disconnectSettles(c) ==
    /\ rpc[c] = "disconnect"
    /\ rpc' = [rpc EXCEPT ![c] = "done"]
    /\ rresult' = [rresult EXCEPT ![c] = Finally(rpending[c], rawait[c])]
    /\ rawait' = [rawait EXCEPT ![c] = "none"]
    /\ UNCHANGED <<rkind, rconnected, rpending, rcalls, rout>>

\* --------------------------------------------- DatabaseConnection, connection
\* Queries executed before the run is cut off.
MaxQueries == 3

\* connect() calls that may wait for their timer at the same time.
MaxPending == 2

Sqls == {"SELECT * FROM users", "SELECT * FROM products"}

NotConnected == <<"Error", "Database not connected">>

\* `Executed: ${sql}`
Executed(sql) == <<"Executed: ", sql>>

\* A query that records the sql before it looks at the connection.
QueryRecordsFirst(connected, queries, sql) ==
    [queries |-> Append(queries, sql),
     result |-> IF connected THEN Executed(sql) ELSE NotConnected]

\* DatabaseConnection.query(sql): the queries field afterwards and the value
\* returned or the error thrown.
Query(connected, queries, sql) ==
    IF ~connected
    THEN [queries |-> queries, result |-> NotConnected]
    ELSE [queries |-> Append(queries, sql), result |-> Executed(sql)]

\* DatabaseConnection.getQueryHistory(): a copy of queries.
getQueryHistory(queries) == [i \in 1..Len(queries) |-> queries[i]]

\* The call record: the operation, its argument and the fields it found.
CallOf(op, sql) ==
    [op |-> op, sql |-> sql, connected |-> qconnected, queries |-> qqueries]

InitConnection ==
    /\ qconnected = FALSE
    /\ qqueries = <<>>
    /\ qpending = 0
    /\ qreturn = <<"none">>
    /\ qcall = [op |-> "none", sql |-> "none", connected |-> FALSE,
                queries |-> <<>>]
    /\ qexecuted = <<>>
    /\ qcompleted = FALSE

\* connect() is called: returns true when already connected, else starts
\* the 100 ms timer and waits.
connect ==
    /\ qcall' = CallOf("connect", "none")
    /\ IF qconnected
       THEN /\ qreturn' = <<"connect", TRUE>>
            /\ UNCHANGED qpending
       ELSE /\ qpending < MaxPending
            /\ qpending' = qpending + 1
            /\ qreturn' = <<"pending">>
    /\ UNCHANGED <<qconnected, qqueries, qexecuted, qcompleted>>

\* The timer of a waiting connect() fires: isConnected = true, the promise
\* resolves to true.
connectResumes ==
    /\ qpending > 0
    /\ qpending' = qpending - 1
    /\ qconnected' = TRUE
    /\ qreturn' = <<"connect", TRUE>>
    /\ qcall' = CallOf("connect resumes", "none")
    /\ qcompleted' = TRUE
    /\ UNCHANGED <<qqueries, qexecuted>>

\* disconnect()
disconnect ==
    /\ qconnected' = FALSE
    /\ qreturn' = <<"disconnect">>
    /\ qcall' = CallOf("disconnect", "none")
    /\ UNCHANGED <<qqueries, qpending, qexecuted, qcompleted>>

\* query(sql)
query(sql) ==
    /\ Len(qqueries) < MaxQueries
    /\ qqueries' = Query(qconnected, qqueries, sql).queries
    /\ qreturn' = Query(qconnected, qqueries, sql).result
    /\ qcall' = CallOf("query", sql)
    /\ qexecuted' = IF qreturn' = NotConnected
                    THEN qexecuted
                    ELSE Append(qexecuted, sql)
    /\ UNCHANGED <<qconnected, qpending, qcompleted>>

\* ---------------------------------------------------------- specifications
\* The last notifyObservers call delivered its payload exactly once to every
\* observer there is.
AllDeliveredOnce == \A o \in Observers : received[o] = <<data>>

Init ==
    /\ InitObservable
    /\ InitAsyncObservable
    /\ scenario = "none"
    /\ kept = {}
    /\ InitFilter
    /\ InitTiming
    /\ InitDatabase
    /\ InitBuilder
    /\ InitInstances
    /\ InitSubject
    /\ InitForecast
    /\ InitRepository
    /\ InitConnection

Next ==
    /\ \/ /\ \E o \in Observers : addObserver(o)
          /\ scenario' = "none"
       \/ /\ \E o \in Observers : removeObserver(o)
          /\ scenario' = "none"
       \/ /\ clearObservers
          /\ scenario' = IF scenario = "delivered" THEN "cleared" ELSE "none"
       \/ /\ \E d \in Data : notifyObservers(d)
          /\ scenario' = IF scenario = "cleared" THEN "renotified" ELSE "none"
       \/ /\ forEachCallback
          /\ scenario' = scenario
       \/ /\ \E upd \in UpdateOutcomes : updateEnds(upd)
          /\ scenario' = scenario
       \/ /\ notifyReturn
          /\ scenario' = IF scenario = "renotified" THEN "renotified"
                         ELSE IF AllDeliveredOnce THEN "delivered"
                         ELSE "none"
    /\ kept' = IF pc = "idle" /\ pc' = "notify" THEN Range(observers)
               ELSE IF pc = "idle" THEN kept
               ELSE kept \cap Range(observers')
    /\ UNCHANGED <<avars, fvars, tvars, dvars, bvars, ovars, uvars, wvars, rvars, qvars>>

Spec == Init /\ [][Next]_vars

AsyncNext ==
    /\ \/ \E o \in Observers : asyncAddObserver(o)
       \/ \E o \in Observers : asyncRemoveObserver(o)
       \/ asyncNotifyObservers
       \/ mapCallback
       \/ \E res \in CallOutcomes : mapCallEnds(res)
       \/ mapDone
       \/ \E o \in Observers, how \in PromiseOutcomes : parSettle(o, how)
       \/ parReturn
       \/ notifyObserversSequentially
       \/ seqNext
       \/ \E res \in CallOutcomes : seqCallEnds(res)
       \/ \E how \in PromiseOutcomes : seqSettle(how)
       \/ seqReturn
    /\ UNCHANGED <<svars, hvars, fvars, tvars, dvars, bvars, ovars, uvars, wvars, rvars, qvars>>

AsyncSpec == Init /\ [][AsyncNext]_vars

FilterNext ==
    /\ \/ \E allowedTypes \in AllowLists : newEventFilter(allowedTypes)
       \/ \E o \in UpObservers : upAddObserver(o)
       \/ \E o \in UpObservers : upRemoveObserver(o)
       \/ \E d \in DownObservers : downAddObserver(d)
       \/ \E d \in DownObservers : downRemoveObserver(d)
       \/ \E t \in Types, m \in Payloads, src \in Sources : emit(t, m, src)
       \/ upCallback
       \/ \E upd \in UpdateOutcomes : loggerEnds(upd)
       \/ downCallback
       \/ \E upd \in UpdateOutcomes : downUpdateEnds(upd)
       \/ downReturn
       \/ upReturn
    /\ UNCHANGED <<svars, avars, hvars, tvars, dvars, bvars, ovars, uvars, wvars, rvars, qvars>>

FilterSpec == Init /\ [][FilterNext]_vars

TimingNext ==
    /\ \/ \E ms \in [Range(Processors) -> Delays] : newAsyncProcessors(ms)
       \/ timedNotifyObservers
       \/ timedNotifyObserversSequentially
       \/ timerFires
    /\ UNCHANGED <<svars, avars, hvars, fvars, dvars, bvars, ovars, uvars, wvars, rvars, qvars>>

TimingSpec == Init /\ [][TimingNext]_vars

DatabaseNext ==
    /\ \/ \E c \in Callers : DatabaseConnection_getInstance(c)
       \/ \E c \in Callers : callerResumes(c)
       \/ \E c \in Callers : callerReturns(c)
    /\ UNCHANGED <<svars, avars, hvars, fvars, tvars, bvars, ovars, uvars, wvars, rvars, qvars>>

DatabaseSpec == Init /\ [][DatabaseNext]_vars

BuilderNext ==
    /\ \/ \E kind \in {"computer", "sql", "http"} : newBuilder(kind)
       \/ \E op \in ComputerSetters, s \in Strs, n \in Nums :
             ComputerBuilder_set(op, s, n)
       \/ \E op \in SQLSetters, s \in Strs, cols \in Cols, dir \in Directions,
             n \in Nums : SQLQueryBuilder_set(op, s, cols, dir, n)
       \/ \E op \in HttpSetters, s \in Strs, m \in Methods, key \in HeaderKeys,
             more \in HeaderObjects, n \in Nums :
             HttpRequestBuilder_set(op, s, m, key, more, n)
       \/ ComputerBuilder_build
       \/ SQLQueryBuilder_build
       \/ HttpRequestBuilder_build
    /\ UNCHANGED <<svars, avars, hvars, fvars, tvars, dvars, ovars, uvars, wvars, rvars, qvars>>

BuilderSpec == Init /\ [][BuilderNext]_vars

\* One notifier in use at a time, registrations changed between calls only.
DiagNext ==
    \/ /\ InitAsyncObservable
       /\ Next
       /\ pc # "idle" => observers' = observers
    \/ /\ InitObservable
       /\ AsyncNext
       /\ apc # "idle" => aobservers' = aobservers

DiagSpec == Init /\ [][DiagNext]_vars

InstancesNext ==
    /\ \/ \E inst \in Instances, o \in Observers : instAddObserver(inst, o)
       \/ \E inst \in Instances, o \in Observers : instRemoveObserver(inst, o)
       \/ \E inst \in Instances : instClearObservers(inst)
       \/ \E inst \in Instances, o \in Observers : hasObserver(inst, o)
       \/ \E inst \in Instances : getObserverCount(inst)
    /\ UNCHANGED <<svars, avars, hvars, fvars, tvars, dvars, bvars, uvars, wvars, rvars, qvars>>

InstancesSpec == Init /\ [][InstancesNext]_vars

SubjectNext ==
    /\ \/ newWeatherStation
       \/ \E initialPrice \in Prices : newStock(initialPrice)
       \/ \E o \in SubjectObservers : subjectAddObserver(o)
       \/ \E o \in SubjectObservers : subjectRemoveObserver(o)
       \/ \E t \in Temperatures, h \in Humidities, p \in Pressures :
             setWeatherData(t, h, p)
       \/ \E newPrice \in Prices, volume \in Volumes : setPrice(newPrice, volume)
       \/ subjectForEachCallback
       \/ \E upd \in UpdateOutcomes : subjectUpdateEnds(upd)
       \/ subjectNotifyReturn
    /\ UNCHANGED <<svars, avars, hvars, fvars, tvars, dvars, bvars, ovars, wvars, rvars, qvars>>

SubjectSpec == Init /\ [][SubjectNext]_vars

ForecastNext ==
    /\ \E weather \in Readings : WeatherForecast_update(weather)
    /\ UNCHANGED <<svars, avars, hvars, fvars, tvars, dvars, bvars, ovars, uvars, rvars, qvars>>

ForecastSpec == Init /\ [][ForecastNext]_vars

RepositoryNext ==
    /\ \/ \E kind \in {"legacy", "other"} : newDatabaseRepository(kind)
       \/ \E c \in Calls, s \in PromiseOutcomes : getUsers(c, s)
       \/ \E c \in Calls, s \in PromiseOutcomes : connectSettles(c, s)
       \/ \E c \in Calls, s \in PromiseOutcomes : querySettles(c, s)
       \/ \E c \in Calls : disconnectSettles(c)
    /\ UNCHANGED <<svars, avars, hvars, fvars, tvars, dvars, bvars, ovars, uvars, wvars, qvars>>

RepositorySpec == Init /\ [][RepositoryNext]_vars

ConnectionNext ==
    /\ \/ connect
       \/ connectResumes
       \/ disconnect
       \/ \E sql \in Sqls : query(sql)
    /\ UNCHANGED <<svars, avars, hvars, fvars, tvars, dvars, bvars, ovars, uvars, wvars, rvars>>

ConnectionSpec == Init /\ [][ConnectionNext]_vars

\* ------------------------------------------------------------------ claims
\* The notifyObservers call has returned to its caller.
Returned == pc = "idle" /\ outcome = "returned"

\* C1: every observer registered when notifyObservers(x) is called has its
\* update invoked exactly once with x by that call, whatever the other
\* observers' updates do.
C1_FanOutCompleteness ==
    Returned => \A o \in startSet : received[o] = <<data>>

\* C2: an observer that was not registered when notifyObservers was called
\* (so one that an update added during the call) is not invoked by that call.
C2_AddedNotInvoked ==
    \A o \in Observers \ startSet : received[o] = <<>>

\* C3: an observer registered when notifyObservers was called is still
\* invoked by that call when an update removes it (or clears the set) before
\* it is reached.
C3_RemovedStillInvoked ==
    Returned => \A o \in startSet : Len(received[o]) >= 1

\* C4: no exception leaves notifyObservers, whichever updates throw.
C4_NoExceptionPropagates == outcome # "threw"

C4_Witness == Returned /\ \E i \in Ids : log[i] > 0

\* C5: the promise of notifyObservers (parallel) and of
\* notifyObserversSequentially never rejects, whichever updateAsync calls
\* throw or reject.
C5_NeverRejects == aoutcome # "rejected"

C5_Witness ==
    /\ apc = "idle"
    /\ aoutcome = "fulfilled"
    /\ \E i \in Ids : alog[i] > 0

\* C6: in both async modes, when an observer's updateAsync has failed, every
\* observer registered when the call was made still has its updateAsync
\* invoked exactly once and run to completion.
C6_AsyncErrorIsolation ==
    (apc = "idle" /\ aoutcome = "fulfilled" /\ \E i \in Ids : alog[i] > 0)
        => \A o \in astartSet : astarted[o] = 1 /\ o \notin inflight

\* C7: notifyObservers (parallel) starts updateAsync on the observers of its
\* array in array order, all of them before it waits on any, and its promise
\* settles only when none of these invocations is pending any more.
C7_ParallelDelivery ==
    amode = "par" =>
        /\ apc \in {"par-map", "par-prefix", "par-await"} =>
              \E k \in 0..Len(snapshot) :
                 /\ \A i \in 1..Len(snapshot) :
                       astarted[snapshot[i]] = IF i <= k THEN 1 ELSE 0
                 /\ apc = "par-await" => k = Len(snapshot)
        /\ inflight # {} => apc # "idle" /\ aoutcome = "pending"

C7_Witness ==
    /\ amode = "par"
    /\ apc = "idle"
    /\ aoutcome = "fulfilled"
    /\ Cardinality(astartSet) >= 2
    /\ \A o \in astartSet : astarted[o] = 1

\* C8: notifyObserversSequentially has at most one updateAsync in flight;
\* the next observer's updateAsync is called only when the previous one has
\* completed, and the call ends with none pending.
C8_SequentialDelivery ==
    amode = "seq" =>
        /\ Cardinality(inflight) <= 1
        /\ apc \in {"seq-run", "seq-prefix", "idle"} => inflight = {}
        /\ apc = "seq-await" => inflight = {acurrent}

C8_Witness ==
    /\ amode = "seq"
    /\ apc = "seq-await"
    /\ Cardinality({o \in Observers : astarted[o] >= 1}) >= 2
    /\ \E i \in Ids : alog[i] > 0

\* C9: the observers that one notifyObserversSequentially call visits are
\* exactly those registered when the call was made, whatever is added or
\* removed while the call is suspended.
C9_SequentialSnapshot ==
    amode = "seq" =>
        /\ \A o \in Observers \ astartSet : astarted[o] = 0
        /\ (apc = "idle" /\ aoutcome = "fulfilled") =>
              \A o \in astartSet : astarted[o] = 1

\* C10: notifyObservers (parallel) invokes updateAsync on exactly the
\* observers registered when it was called, once each, whatever is added or
\* removed during the call.
C10_ParallelSnapshot ==
    amode = "par" =>
        /\ \A o \in Observers \ astartSet : astarted[o] = 0
        /\ \A o \in astartSet : astarted[o] <= 1
        /\ apc \in {"par-await", "idle"} => \A o \in astartSet : astarted[o] = 1

C10_Witness ==
    /\ amode = "par"
    /\ apc = "par-await"
    /\ inflight = {}
    /\ astartSet \ Range(aobservers) # {}
    /\ Range(aobservers) \ astartSet # {}

\* C11: addObserver(o) twice in a row raises getObserverCount() by exactly 1
\* when o was absent and by 0 when it was present (the second call changes
\* nothing), and removeObserver(o) of an absent o leaves the set and the
\* count as they are.
C11_IdempotentRegistration ==
    \A o \in Observers :
       LET once  == SetAdd(observers, o)
           twice == SetAdd(once, o)
       IN /\ SetSize(twice) - SetSize(observers)
                = IF SetHas(observers, o) THEN 0 ELSE 1
          /\ twice = once
          /\ SetHas(observers, o) => once = observers
          /\ ~SetHas(observers, o) =>
                /\ SetDelete(observers, o) = observers
                /\ SetSize(SetDelete(observers, o)) = SetSize(observers)
                /\ CursorAfterDelete(observers, cursor, o) = cursor

C11_Witness ==
    /\ pc = "idle"
    /\ SetSize(observers) = 2
    /\ outcome = "returned"

\* C12: one notifyObservers call attempts each observer once and then
\* returns, also when updates change the registration set during the call:
\* no observer's update is invoked a second time by the same call.
C12_EachAttemptedOnce ==
    \A o \in Observers : Len(received[o]) <= 1

\* C13: notifyObservers invokes the observers one after another in insertion
\* order: an update begins only when no other update of the call is running,
\* on a registered observer, and every observer registered before it in
\* insertion order has already been invoked by the call.
C13_InsertionOrderDelivery ==
    [][(pc' = "update" /\ current' # current) =>
          /\ pc = "notify"
          /\ current = "none"
          /\ SetHas(observers, current')
          /\ \A i \in 1..(IndexOf(observers, current') - 1) :
                received[observers[i]] # <<>>]_vars

C13_Witness ==
    /\ pc = "update"
    /\ SetSize(observers) = 3
    /\ current = observers[3]
    /\ \E i \in Ids : log[i] > 0
    /\ \A o \in Observers : Len(received[o]) = 1

\* C14: after the three observers have each been delivered v1 once by a
\* notifyObservers call, clearObservers() leaves getObserverCount() at 0 and
\* the following notifyObservers(v2) invokes no observer, so that each
\* observer has recorded one call in total (the one of the first call).
C14_ClearScenario ==
    /\ scenario = "cleared" => SetSize(observers) = 0
    /\ scenario = "renotified" =>
          \A o \in Observers : 1 + Len(received[o]) = 1

C14_Witness ==
    /\ scenario = "renotified"
    /\ Returned
    /\ data = "v2"

\* C15: an EventFilter with allow-set fallowed invokes a downstream observer
\* only with events whose type is the incoming event's type and is in the
\* allow-set (so an event whose type is not allowed causes no downstream
\* invocation at all), and whenever the upstream notifier is between two
\* callbacks, every downstream observer that was registered when the emit
\* began and has stayed registered has been invoked exactly once for each
\* EventFilter.update of this emit whose event type is allowed.  The counts
\* of one emit add up over any sequence of emits.
C15_FilterCorrectness ==
    /\ \A d \in DownObservers : \A i \in 1..Len(fgot[d]) :
          /\ fgot[d][i].type = fevent.type
          /\ fevent.type \in fallowed
    /\ fevent.type \notin fallowed => ffiltlog = 0
    /\ fpc = "up" => \A d \in fsteady : Len(fgot[d]) = ffiltlog

C15_Witness ==
    /\ fpc = "up"
    /\ fupcur = Len(fup)
    /\ fallowed = {"error"}
    /\ fevent.type = "error"
    /\ ffiltlog = 1
    /\ fsteady = DownObservers
    /\ ferrlog = {"d1"}

\* C16: while the filtered emitter is notifying, the event it passes on has
\* the type and the data of the incoming event and, as its source, the text
\* "filtered-" followed by the incoming source as a template literal prints
\* it ("undefined" when the source was left out); when the incoming event's
\* type is not allowed, no downstream emit is in progress, no downstream
\* observer has been invoked and the filter has printed nothing.
C16_DerivedEvent ==
    /\ fpc \in {"down", "dupdate"} =>
          /\ fevent.type \in fallowed
          /\ fderived.type = fevent.type
          /\ fderived.data = fevent.data
          /\ fderived.source[1] = "filtered-"
          /\ Len(fderived.source) = 2
          /\ fderived.source[2] =
                IF fevent.source = Undefined THEN "undefined" ELSE fevent.source[1]
          /\ \A d \in DownObservers : \A i \in 1..Len(fgot[d]) : fgot[d][i] = fderived
    /\ fevent.type \notin fallowed =>
          /\ fpc \notin {"down", "dupdate"}
          /\ fderived = NoEvent
          /\ ffiltlog = 0
          /\ ferrlog \subseteq {"logger"}
          /\ \A d \in DownObservers : fgot[d] = <<>>

C16_Witness ==
    /\ fpc = "dupdate"
    /\ fcurrent = "d2"
    /\ fevent = EventOf("info", "m2", Undefined)
    /\ fgot["d2"] = <<[type |-> "info", data |-> "m2",
                       source |-> <<"filtered-", "undefined">>]>>

\* C17: the set removeObserver(o) leaves has no o, so hasObserver(o) is
\* false; every update the notifier starts is on an observer that is in the
\* set at that moment, so an observer that was removed is not invoked until
\* it is added again; and when a notifyObservers call has returned, every
\* observer that was registered when it began and stayed registered while it
\* ran has received its payload exactly once.
C17_RemovedNotInvoked ==
    /\ [](\A o \in Observers : ~SetHas(SetDelete(observers, o), o))
    /\ [][(pc = "notify" /\ pc' = "update") => SetHas(observers, current')]_vars
    /\ [](pc = "idle" => \A o \in kept : received[o] = <<data>>)

C17_Witness ==
    /\ pc = "idle"
    /\ data = "v1"
    /\ observers = <<"o2", "o3">>
    /\ kept = {"o2", "o3"}
    /\ received = [o \in Observers |-> IF o = "o1" THEN <<>> ELSE <<"v1">>]
    /\ log["logger"] = 1

\* C18: o1 and o3 are distinct observers with the same getId().  When
\* neither is registered, adding both raises getObserverCount() by 2 and
\* registers both; when both are registered, removing either leaves the
\* other registered; and when a notifyObservers call has returned through
\* which both stayed registered, each has received the payload exactly once.
SameId == {p \in Observers \X Observers : p[1] # p[2] /\ getId(p[1]) = getId(p[2])}

C18_IdentityNotId ==
    \A p \in SameId :
       /\ (~SetHas(observers, p[1]) /\ ~SetHas(observers, p[2])) =>
             /\ SetSize(SetAdd(SetAdd(observers, p[1]), p[2])) = SetSize(observers) + 2
             /\ SetHas(SetAdd(SetAdd(observers, p[1]), p[2]), p[1])
             /\ SetHas(SetAdd(SetAdd(observers, p[1]), p[2]), p[2])
       /\ (SetHas(observers, p[1]) /\ SetHas(observers, p[2])) =>
             /\ SetHas(SetDelete(observers, p[1]), p[2])
             /\ ~SetHas(SetDelete(observers, p[1]), p[1])
       /\ (pc = "idle" /\ {p[1], p[2]} \subseteq kept) =>
             /\ received[p[1]] = <<data>>
             /\ received[p[2]] = <<data>>

C18_Witness ==
    /\ pc = "idle"
    /\ observers = <<"o3">>
    /\ kept = {"o1", "o3"}
    /\ received["o1"] = <<"v2">>
    /\ received["o3"] = <<"v2">>
    /\ log["display"] = 2

\* C19: when a timed call has completed, the time from its start to its
\* completion is the largest of the three processing times for
\* notifyObservers and their sum for notifyObserversSequentially; with
\* processing times 100, 200 and 300 in any order that is 300 and 600.
C19_LogicalTiming ==
    (tpc = "idle" /\ tend # <<>>) =>
       LET elapsed == tend[1] - tstart
           ms      == {tdelay[p] : p \in Range(Processors)}
           sum     == tdelay["p1"] + tdelay["p2"] + tdelay["p3"]
       IN /\ tmode = "parallel" =>
                /\ elapsed \in ms
                /\ \A m \in ms : m <= elapsed
                /\ ms = {100, 200, 300} => elapsed = 300
          /\ tmode = "sequential" =>
                /\ elapsed = sum
                /\ ms = {100, 200, 300} => elapsed = 600

C19_Witness ==
    /\ tpc = "idle"
    /\ tdelay = [p \in Range(Processors) |->
                    IF p = "p1" THEN 100 ELSE IF p = "p2" THEN 200 ELSE 300]
    /\ tmode = "sequential"
    /\ tstart = 300
    /\ tend = <<900>>

\* C20: the DatabaseConnection constructor runs at most once, and every
\* promise of getInstance() that has resolved has resolved to that one
\* instance, which is an object and not undefined, whether its call began
\* before or after the other calls resolved.
C20_SingleInstance ==
    /\ dconstructed <= 1
    /\ ~dlock
    /\ \A c \in Callers :
          /\ dpc[c] # "waiting"
          /\ dpc[c] \in {"settled", "resumed", "done"} =>
                /\ dvalue[c] = <<dinstance>>
                /\ dvalue[c] # << <<>> >>
                /\ dvalue[c] = <<NewDatabaseConnection(1)>>

C20_Witness ==
    /\ dconstructed = 1
    /\ \A c \in Callers : dpc[c] = "settled" /\ dvalue[c] = << <<1>> >>

\* C21: once build() has returned a product, that product stays as it was
\* when it was returned whatever setters are called on the builder later; the
\* object the builder holds is a different one; and it is a new product with
\* exactly the setter calls made since that build() applied, so the next
\* build() returns nothing carried over.
C21_BuilderReset ==
    blast # "none" =>
       /\ bheap[blast] = bsnap
       /\ bcur # blast
       /\ bheap[bcur] = bexpect
       /\ bsets = 0 => bheap[bcur] = NewProduct(bkind)

C21_Witness ==
    /\ bkind = "sql"
    /\ blast = "b"
    /\ bsnap.select = <<"x", "y">>
    /\ bsnap.where = <<"x">>
    /\ bheap[bcur].from = "x"
    /\ bheap[bcur].orderBy = << <<"x", " ", "ASC">> >>

\* C22: in notifyObservers of Observable and in both calls of
\* AsyncObservable, a step in which an observer's update or updateAsync
\* fails (by throwing, or by a promise that rejects) adds exactly one
\* console.error line under that observer's getId(), a step in which it
\* succeeds adds none, and no other step adds a line; the line's text holds
\* the observer's getId() and the line ends with the error.
C22_Diagnostics ==
    /\ [](\A o \in Observers, e \in Errors :
             /\ ErrorLine(o, e)[2] = getId(o)
             /\ ErrorLine(o, e)[Len(ErrorLine(o, e))] = e
             /\ AsyncErrorLine(o, e)[2] = getId(o)
             /\ AsyncErrorLine(o, e)[Len(AsyncErrorLine(o, e))] = e)
    /\ [][/\ updateEnds("threw") =>
                log' = [log EXCEPT ![getId(current)] = @ + 1]
          /\ (pc # "idle" /\ ~updateEnds("threw")) => log' = log
          /\ (mapCallEnds("threw") \/ seqCallEnds("threw") \/ seqSettle("rejected")) =>
                alog' = [alog EXCEPT ![getId(acurrent)] = @ + 1]
          /\ \A o \in Observers : parSettle(o, "rejected") =>
                alog' = [alog EXCEPT ![getId(o)] = @ + 1]
          /\ (/\ apc # "idle"
              /\ ~mapCallEnds("threw")
              /\ ~seqCallEnds("threw")
              /\ ~seqSettle("rejected")
              /\ \A o \in Observers : ~parSettle(o, "rejected")) => alog' = alog]_vars

C22_Witness ==
    /\ apc = "idle"
    /\ amode = "seq"
    /\ aoutcome = "fulfilled"
    /\ alog["display"] = 2
    /\ alog["logger"] = 0
    /\ SetSize(aobservers) = 3

\* C23: a step that is addObserver, removeObserver or clearObservers on one
\* notifier instance leaves the registration set of every other instance as
\* it was (the EventFilter's filtered emitter and the upstream emitter
\* included), and hasObserver and getObserverCount leave every registration
\* set as it was.
C23_SetsNotShared ==
    [][/\ \A inst \in Instances :
             (\/ \E o \in Observers : instAddObserver(inst, o)
              \/ \E o \in Observers : instRemoveObserver(inst, o)
              \/ instClearObservers(inst)) =>
                \A other \in Instances \ {inst} : oregs'[other] = oregs[other]
       /\ (\/ \E inst \in Instances, o \in Observers : hasObserver(inst, o)
           \/ \E inst \in Instances : getObserverCount(inst)) =>
                oregs' = oregs
       /\ fup' = fup \/ fdown' = fdown]_vars

C23_Witness ==
    /\ oregs["filteredEmitter"] = <<"o1">>
    /\ oregs["eventEmitter"] = <<"o2", "o3">>
    /\ oregs["asyncObservable"] = <<>>
    /\ oanswer = <<"hasObserver", FALSE>>

\* C24: between calls, for every set the notifier can hold, addObserver of
\* a registered observer leaves the set, and so every position in it, as it
\* was; removeObserver followed by addObserver of the same observer puts it
\* last and leaves the others in their order; and the notifier enters an
\* observer's update only when every observer before it in the set has been
\* attempted in this call, so an observer added again is notified after
\* every observer that stayed registered.
C24_PositionInOrder ==
    /\ [](pc = "idle" =>
             \A o \in Range(observers) :
                LET again == SetAdd(SetDelete(observers, o), o)
                IN /\ SetAdd(observers, o) = observers
                   /\ IndexOf(again, o) = SetSize(again)
                   /\ SetDelete(again, o) = SetDelete(observers, o))
    /\ [][(pc = "notify" /\ pc' = "update") =>
             /\ IndexOf(observers, current') = cursor'
             /\ \A i \in 1..(cursor' - 1) : Len(received'[observers[i]]) >= 1]_vars

C24_Witness ==
    /\ pc = "update"
    /\ current = "o1"
    /\ observers = <<"o2", "o3", "o1">>
    /\ received["o1"] = <<"v1", "v1">>
    /\ received["o2"] = <<"v1">>
    /\ received["o3"] = <<"v1">>

\* C25: while the filtered emitter's forEach runs, the upstream forEach makes
\* no step; and whenever the upstream forEach enters its next observer or
\* the upstream emit returns, every downstream observer that was registered
\* when the emit began and has stayed registered has been invoked with the
\* derived event once for each EventFilter.update of an allowed event made
\* so far in this emit.
C25_DepthFirst ==
    [][/\ fpc \in {"down", "dupdate"} =>
             /\ fpc' \in {"down", "dupdate", "up"}
             /\ fevent' = fevent
             /\ fpc' = "up" => (fpc = "down" /\ fdowncur = Len(fdown))
       /\ (fpc = "up" /\ fpc' \in {"logger", "down", "idle"}) =>
             \A d \in fsteady :
                /\ Len(fgot[d]) = ffiltlog
                /\ \A i \in 1..Len(fgot[d]) : fgot[d][i] = DerivedEvent(fevent)]_vars

C25_Witness ==
    /\ fpc = "logger"
    /\ fup = <<"filter", "logger">>
    /\ ffiltlog = 1
    /\ fsteady = DownObservers
    /\ fdown = <<"d2", "d1">>
    /\ \A d \in DownObservers : Len(fgot[d]) = 1

\* C26: when a downstream update ends, by returning or by throwing, the
\* filtered emitter's forEach goes on where it was; the upstream notifier
\* never prints an error line for the filter; when EventFilter.update has
\* returned, the upstream forEach is where it was and every downstream
\* observer that stayed registered has received the derived event once for
\* each allowed update, whoever threw.
C26_DownstreamContained ==
    /\ []("filter" \notin ferrlog)
    /\ [](fpc = "up" => \A d \in fsteady :
             Len(fgot[d]) = IF Allowed(fallowed, fevent) THEN ffiltlog ELSE 0)
    /\ [][/\ (fpc = "dupdate" /\ fpc' # "dupdate") =>
                /\ fpc' = "down"
                /\ fdowncur' = fdowncur
                /\ fderived' = fderived
                /\ fdown' = fdown
          /\ (fpc = "down" /\ fpc' = "up") =>
                /\ fupcur' = fupcur
                /\ fup' = fup
                /\ ferrlog' = ferrlog]_vars

C26_Witness ==
    /\ fpc = "logger"
    /\ fup = <<"filter", "logger">>
    /\ fdown = <<"d1", "d2">>
    /\ fsteady = DownObservers
    /\ ferrlog = {"d1"}
    /\ Len(fgot["d1"]) = 1
    /\ Len(fgot["d2"]) = 1

LastOf(s, n) ==
    IF Len(s) <= n THEN s ELSE SubSeq(s, Len(s) - n + 1, Len(s))

\* C28: after any sequence of updates a WeatherForecast's history holds at
\* most 10 readings, namely the most recent readings received in arrival
\* order, and the forecast computed by an update is 'Not enough data'
\* exactly when fewer than 2 readings have been received.
C28_BoundedHistory ==
    /\ Len(whistory) <= HistoryLimit
    /\ whistory = LastOf(wall, HistoryLimit)
    /\ Len(wall) < 2 <=> generateForecast(whistory) = "Not enough data"
    /\ wforecast # "none" => (wforecast = "Not enough data" <=> Len(wall) < 2)

C28_Witness ==
    /\ Len(wall) = 12
    /\ Len(whistory) = 10
    /\ whistory[1] = wall[3]
    /\ wall[1] # wall[3]
    /\ wforecast = "Stormy weather expected"

\* The number of times x occurs in s.
Occurrences(s, x) == Cardinality({i \in 1..Len(s) : s[i] = x})

\* What C29 states apart from the error that reaches the caller: the methods
\* are called in the order connect, query, disconnect; a completed getUsers
\* whose connect resolved called disconnect exactly once (after query), and
\* one whose connect rejected called neither query nor disconnect.
C29_OrderAndCleanup ==
    \A c \in Calls :
        /\ \E n \in 0..3 : rcalls[c] = SubSeq(<<"connect", "query", "disconnect">>, 1, n)
        /\ rpc[c] = "done" =>
              /\ rout[c]["connect"] = "resolved" =>
                    /\ Occurrences(rcalls[c], "disconnect") = 1
                    /\ rcalls[c] = <<"connect", "query", "disconnect">>
              /\ rout[c]["connect"] = "rejected" =>
                    /\ rcalls[c] = <<"connect">>
                    /\ rresult[c] = "connect error"

\* C29: getUsers calls connect, query, disconnect in that order; when
\* connect succeeded disconnect is called exactly once before getUsers
\* completes, also when query fails, and the query error then reaches the
\* caller; when connect fails neither query nor disconnect is called.
C29_GetUsersProtocol ==
    /\ C29_OrderAndCleanup
    /\ \A c \in Calls :
          (rpc[c] = "done" /\ rout[c]["query"] = "rejected") =>
              rresult[c] = "query error"

\* A completed getUsers call whose query and disconnect both rejected: the
\* caller received the error of disconnect.
C29_Witness ==
    /\ rkind = "other"
    /\ rpc["g1"] = "done"
    /\ rcalls["g1"] = <<"connect", "query", "disconnect">>
    /\ rout["g1"]["query"] = "rejected"
    /\ rout["g1"]["disconnect"] = "rejected"
    /\ rpending["g1"] = "query error"
    /\ rresult["g1"] = "disconnect error"

\* C30: a query made while the connection is not active throws 'Database
\* not connected' and leaves the history as it was; one made while it is
\* active appends its sql once and returns; the connection is not active
\* until a connect has completed and right after a disconnect; and
\* getQueryHistory() is the sequence of the queries that returned normally,
\* in call order.
C30_QueryNeedsConnection ==
    /\ qcall.op = "query" =>
          /\ ~qcall.connected =>
                /\ qreturn = NotConnected
                /\ qqueries = qcall.queries
          /\ qcall.connected =>
                /\ qreturn = Executed(qcall.sql)
                /\ qqueries = Append(qcall.queries, qcall.sql)
    /\ ~qcompleted => ~qconnected
    /\ qcall.op = "disconnect" => ~qconnected
    /\ getQueryHistory(qqueries) = qexecuted

C30_Witness ==
    /\ qcall.op = "query"
    /\ qcall.sql = "SELECT * FROM users"
    /\ qcompleted
    /\ ~qcall.connected
    /\ qreturn = NotConnected
    /\ getQueryHistory(qqueries) = <<"SELECT * FROM users", "SELECT * FROM products">>

====
